---- MODULE Spec2Model ----
(***************************************************************************)
(* Model of the iFood remote synchronization engine:                       *)
(*   - backend/server.py: process_ifood_event, save_order_from_ifood and   *)
(*     the operator order/picking command endpoints, over the orders and   *)
(*     events collections;                                                 *)
(*   - backend/ifood_client.py: the token lifecycle (authenticate,         *)
(*     _is_token_valid, _get_headers) and the outbound calls with their    *)
(*     retry on 401.                                                       *)
(* Every await of the code is a step boundary: what runs between two       *)
(* awaits of one coroutine is one atomic action.                           *)
(***************************************************************************)
EXTENDS Integers, Sequences, FiniteSets, Bags, TLC

VARIABLES
    orders,     \* db.orders: sequence of order documents, local id = position
    events,     \* db.events: bag of event documents
    pc,         \* per process_ifood_event caller: position in the coroutine
    cur,        \* per caller: the event being processed
    outcome,    \* per caller: how its last process_ifood_event call ended
    details,    \* per caller: what get_order_details returned (PLACED)
    opPc,       \* the operator command endpoint: position
    opCmd,      \* the command being executed
    opId,       \* the local order id the command was called with
    opResult,   \* the endpoint's last answer
    second,     \* history: per caller, its current or last call is a second
                \* sequential call (see Deliver)
    saved,      \* history: event ids whose order was saved from fetched details
    access_token,       \* IFoodClient._access_token
    token_expires_at,   \* IFoodClient._token_expires_at
    token_expires_in,   \* IFoodClient._token_expires_in
    now,                \* datetime.now(timezone.utc), in minutes
    calls,              \* per caller of the client: its outbound call
    lastOp,             \* history: the operation of the call that ended last
    client_id,          \* IFoodClient.client_id
    client_secret,      \* IFoodClient.client_secret
    polling_active,     \* server.polling_active
    polling_task,       \* server.polling_task: the loop task, or NoTask
    cyc,                \* per runner of poll cycles: the locals of its cycle
    polling_status,     \* the db.polling_status document of the merchant
    acked,              \* remote platform: event ids acknowledged so far
    stopPc,             \* stop_polling: position
    stopTask,           \* stop_polling: the task it cancelled and awaits
    cycles,             \* poll cycles started by loop tasks so far
    starts              \* loop tasks created so far

procVars == <<orders, events, pc, cur, outcome, details, opPc, opCmd, opId,
              opResult, second, saved>>

authVars == <<access_token, token_expires_at, token_expires_in, now, calls,
              lastOp, client_id, client_secret>>

pollVars == <<polling_active, polling_task, cyc, polling_status, acked, stopPc,
              stopTask, cycles, starts>>

vars == <<procVars, authVars, pollVars>>

(***************************************************************************)
(* Values                                                                  *)
(***************************************************************************)
NoId == "None"          \* Python None in an id field
NoTime == "unset"       \* a timestamp field that was never written
Stamp == "set"          \* datetime.now(timezone.utc).isoformat()
NoDriver == "nodriver"

\* models.OrderStatus, in declaration order
OrderStatus ==
    <<"PLACED", "CONFIRMED", "PREPARATION_STARTED", "SEPARATION_STARTED",
      "SEPARATION_ENDED", "READY_TO_PICKUP", "DISPATCHED", "ARRIVED",
      "CONCLUDED", "CANCELLED">>

\* position of a status in the lifecycle
Rank(s) == CHOOSE i \in 1..Len(OrderStatus) : OrderStatus[i] = s

\* The remote event feed: every event id names one immutable event
\* (code, orderId, driver).  Any of them may be delivered any number of times.
FeedEvent ==
    [E1 |-> [code |-> "PLACED",        orderId |-> "O1"],
     E2 |-> [code |-> "CONFIRMED",     orderId |-> "O1"],
     E3 |-> [code |-> "DISPATCHED",    orderId |-> "O1"],
     E4 |-> [code |-> "CONCLUDED",     orderId |-> "O1"],
     E5 |-> [code |-> "CANCELLED",     orderId |-> "O1"],
     E6 |-> [code |-> "ASSIGN_DRIVER", orderId |-> "O1"],
     E7 |-> [code |-> "ORDER_PATCHED", orderId |-> "O1"],
     E8 |-> [code |-> "RECOMMENDED_PREPARATION_START", orderId |-> "O1"],
     E9 |-> [code |-> "PREPARATION_STARTED", orderId |-> "O1"],
     E10 |-> [code |-> "PLACED",       orderId |-> "O1"]]

EventIds == DOMAIN FeedEvent

\* the two callers of process_ifood_event
Workers == {"polling_loop", "force_poll"}

\* the tasks asyncio.create_task(polling_loop()) may have created
LoopTasks == {"polling_loop", "polling_loop_2"}

\* everything that runs poll cycles
Runners == Workers \cup LoopTasks

(***************************************************************************)
(* db.events                                                               *)
(***************************************************************************)
\* event_doc of process_ifood_event
EventDoc(e, processed) ==
    [event_id |-> e, event_type |-> FeedEvent[e].code,
     order_id |-> FeedEvent[e].orderId, processed |-> processed]

\* number of documents of db.events with this event_id
CountEvent(e) ==
    CopiesIn(EventDoc(e, FALSE), events) + CopiesIn(EventDoc(e, TRUE), events)

\* find_one({"id": event_id}): the documents' "id" is a fresh uuid4
FindEventByDocId(e) == FALSE
\* db.events.find_one({"event_id": event_id})
FindEvent(e) == CountEvent(e) > 0

NoUniqueEventIndex == FALSE
\* startup_event: db.events.create_index("event_id", unique=True)
UniqueEventIndex == TRUE

\* db.events.insert_one raises DuplicateKeyError under the unique index
InsertEventRaises(e) == UniqueEventIndex /\ CountEvent(e) > 0

\* db.events.update_one({"event_id": e}, {"$set": {"processed": True, ...}})
MarkProcessed(e) ==
    IF CopiesIn(EventDoc(e, FALSE), events) > 0
    THEN (events (-) SetToBag({EventDoc(e, FALSE)})) (+) SetToBag({EventDoc(e, TRUE)})
    ELSE events

(***************************************************************************)
(* db.orders                                                               *)
(***************************************************************************)
\* order_doc of save_order_from_ifood; ifood_id is order_data.get("id")
NewOrder(ifoodId) ==
    [ifood_id |-> ifoodId, status |-> "PLACED", confirmed_at |-> NoTime,
     dispatched_at |-> NoTime, concluded_at |-> NoTime, cancelled_at |-> NoTime,
     driver |-> NoDriver]

\* positions of the documents matching {"ifood_id": o}
MatchIfood(o) == {i \in DOMAIN orders : orders[i].ifood_id = o}

Min(S) == CHOOSE x \in S : \A y \in S : x <= y

\* the $set of each mapped event type
SetConfirmedByEvent(o) == [o EXCEPT !.status = "CONFIRMED"]
SetCancelled(o) == [o EXCEPT !.status = "CANCELLED", !.cancelled_at = Stamp]
SetDispatched(o) == [o EXCEPT !.status = "DISPATCHED", !.dispatched_at = Stamp]
SetConcluded(o) == [o EXCEPT !.status = "CONCLUDED", !.concluded_at = Stamp]
SetDriverAndStatus(o) == [o EXCEPT !.driver = "driver", !.status = "DISPATCHED"]
SetDriver(o) == [o EXCEPT !.driver = "driver"]

\* event types with a branch of their own that updates db.orders
UpdateTypes == {"CONFIRMED", "CANCELLED", "DISPATCHED", "CONCLUDED", "ASSIGN_DRIVER"}

\* the $set of the branch of an event type
EventSet(code, o) ==
    CASE code = "CONFIRMED" -> SetConfirmedByEvent(o)
      [] code = "CANCELLED" -> SetCancelled(o)
      [] code = "DISPATCHED" -> SetDispatched(o)
      [] code = "CONCLUDED" -> SetConcluded(o)
      [] code = "ASSIGN_DRIVER" -> SetDriver(o)

UpdateOneUpsert(match, code) ==
    IF match = {} THEN Append(orders, EventSet(code, NewOrder(NoId)))
    ELSE [orders EXCEPT ![Min(match)] = EventSet(code, orders[Min(match)])]
\* update_one changes the first matching document, or nothing
UpdateOne(match, code) ==
    IF match = {} THEN orders
    ELSE [orders EXCEPT ![Min(match)] = EventSet(code, orders[Min(match)])]

ApplyUpdateInOrder(code, o) ==
    IF code \in UpdateTypes
    THEN UpdateOne({i \in MatchIfood(o) :
                       code \in {"DISPATCHED", "CONCLUDED"} =>
                           orders[i].status /= "PLACED"}, code)
    ELSE orders
\* db.orders after the branch of the event type ran for remote order o
ApplyUpdate(code, o) ==
    IF code \in UpdateTypes THEN UpdateOne(MatchIfood(o), code) ELSE orders

(***************************************************************************)
(* process_ifood_event, one action per await                               *)
(***************************************************************************)
NoEvent == "none"       \* no call in progress

\* process_ifood_event is entered with event e.  second records that this is
\* a second sequential call for the event id: its document is stored and no
\* other call for the same id is in progress.
BeginEvent(w, e) ==
    /\ pc[w] = "idle"
    /\ pc' = [pc EXCEPT ![w] = "dedupe"]
    /\ cur' = [cur EXCEPT ![w] = e]
    /\ second' = [second EXCEPT ![w] =
                     CountEvent(e) > 0 /\ \A v \in Runners \ {w} : cur[v] /= e]
    /\ UNCHANGED <<orders, events, outcome, details, opPc, opCmd, opId, opResult,
                   saved>>
    /\ UNCHANGED authVars

\* The poller or force_poll hands an event to process_ifood_event.
Deliver(w, e) ==
    /\ BeginEvent(w, e)
    /\ UNCHANGED pollVars

AfterInsertFetches(code) ==
    IF code \in UpdateTypes THEN "update" ELSE "fetch"
\* where the coroutine goes after the event document was inserted
AfterInsert(code) ==
    IF code = "PLACED" THEN "fetch"
    ELSE IF code \in UpdateTypes THEN "update" ELSE "mark"

\* the call ends: its locals are gone
Return(w, how) ==
    /\ pc' = [pc EXCEPT ![w] = "idle"]
    /\ cur' = [cur EXCEPT ![w] = NoEvent]
    /\ outcome' = [outcome EXCEPT ![w] = how]
    /\ UNCHANGED second

\* existing = await db.events.find_one(...); if existing: return
Dedupe(w) ==
    /\ pc[w] = "dedupe"
    /\ IF FindEvent(cur[w])
       THEN Return(w, "returned")
       ELSE /\ pc' = [pc EXCEPT ![w] = "insert"]
            /\ UNCHANGED <<cur, outcome, second>>
    /\ UNCHANGED <<orders, events, details, opPc, opCmd, opId, opResult, saved>>
    /\ UNCHANGED authVars
    /\ UNCHANGED pollVars

\* await db.events.insert_one(event_doc)
InsertEvent(w) ==
    /\ pc[w] = "insert"
    /\ IF InsertEventRaises(cur[w])
       THEN /\ Return(w, "raised")
            /\ UNCHANGED events
       ELSE /\ events' = events (+) SetToBag({EventDoc(cur[w], FALSE)})
            /\ pc' = [pc EXCEPT ![w] = AfterInsert(FeedEvent[cur[w]].code)]
            /\ UNCHANGED <<cur, outcome, second>>
    /\ UNCHANGED <<orders, details, opPc, opCmd, opId, opResult, saved>>
    /\ UNCHANGED authVars
    /\ UNCHANGED pollVars

\* order_details = await ifood_client.get_order_details(order_id):
\* the order, the not-found dict (404), or an exception caught by the except
FetchDetails(w) ==
    /\ pc[w] = "fetch"
    /\ \E r \in {"order", "notfound", "raise"} :
          /\ details' = [details EXCEPT ![w] = IF r = "raise" THEN "none" ELSE r]
          /\ pc' = [pc EXCEPT ![w] = IF r = "raise" THEN "mark" ELSE "save"]
    /\ UNCHANGED <<orders, events, cur, outcome, opPc, opCmd, opId, opResult,
                   second, saved>>
    /\ UNCHANGED authVars
    /\ UNCHANGED pollVars

\* await save_order_from_ifood(order_details, merchant_id): db.orders.insert_one
SaveOrder(w) ==
    /\ pc[w] = "save"
    /\ orders' = Append(orders,
                   NewOrder(IF details[w] = "order"
                            THEN FeedEvent[cur[w]].orderId ELSE NoId))
    /\ saved' = IF details[w] = "order" THEN saved \cup {cur[w]} ELSE saved
    /\ details' = [details EXCEPT ![w] = "none"]
    /\ pc' = [pc EXCEPT ![w] = "mark"]
    /\ UNCHANGED <<events, cur, outcome, opPc, opCmd, opId, opResult, second>>
    /\ UNCHANGED authVars
    /\ UNCHANGED pollVars

\* await db.orders.update_one({"ifood_id": order_id}, {"$set": ...})
UpdateOrder(w) ==
    /\ pc[w] = "update"
    /\ orders' = ApplyUpdate(FeedEvent[cur[w]].code, FeedEvent[cur[w]].orderId)
    /\ pc' = [pc EXCEPT ![w] = "mark"]
    /\ UNCHANGED <<events, cur, outcome, details, opPc, opCmd, opId, opResult,
                   second, saved>>
    /\ UNCHANGED authVars
    /\ UNCHANGED pollVars

\* await db.events.update_one(..., {"$set": {"processed": True, ...}})
MarkEvent(w) ==
    /\ pc[w] = "mark"
    /\ events' = MarkProcessed(cur[w])
    /\ Return(w, "returned")
    /\ UNCHANGED <<orders, details, opPc, opCmd, opId, opResult, saved>>
    /\ UNCHANGED authVars
    /\ UNCHANGED pollVars

(***************************************************************************)
(* The operator command endpoints of orders_router and picking_router      *)
(***************************************************************************)
\* "picking-item" is any of the four item endpoints of picking_router: their
\* bodies differ in the client method only
Commands == {"confirm", "start-preparation", "ready", "dispatch", "cancel",
             "tracking", "picking-start", "picking-end", "picking-item"}

\* the endpoints that write the order after the remote call
UpdatingCommands == Commands \ {"tracking", "picking-item"}

\* the status check made before the remote call (400 when it fails)
CommandAllowed(cmd, o) ==
    CASE cmd = "confirm" -> o.status = "PLACED"
      [] cmd = "cancel" -> o.status /= "CANCELLED"
      [] OTHER -> TRUE

\* the $set of the endpoint's update_one
CommandSet(cmd, o) ==
    CASE cmd = "confirm" -> [o EXCEPT !.status = "CONFIRMED", !.confirmed_at = Stamp]
      [] cmd = "start-preparation" -> [o EXCEPT !.status = "PREPARATION_STARTED"]
      [] cmd = "ready" -> [o EXCEPT !.status = "READY_TO_PICKUP"]
      [] cmd = "dispatch" -> [o EXCEPT !.status = "DISPATCHED", !.dispatched_at = Stamp]
      [] cmd = "cancel" -> [o EXCEPT !.status = "CANCELLED", !.cancelled_at = Stamp]
      [] cmd = "picking-start" -> [o EXCEPT !.status = "SEPARATION_STARTED"]
      [] cmd = "picking-end" -> [o EXCEPT !.status = "SEPARATION_ENDED"]

\* local ids a request may name: stored orders and ids that match none
MaxLocalId == 2

OrderMissingExceptTracking(cmd, id) == id \notin DOMAIN orders /\ cmd /= "tracking"
\* order = await db.orders.find_one({"id": order_id}); if not order
OrderMissing(cmd, id) == id \notin DOMAIN orders

\* order = await db.orders.find_one({"id": order_id}); 404 / 400 / go on to the
\* remote call
CommandBegin(cmd, id) ==
    /\ opPc = "idle"
    /\ IF OrderMissing(cmd, id)
       THEN /\ opResult' = "404"
            /\ UNCHANGED <<opPc, opCmd, opId>>
       ELSE IF ~CommandAllowed(cmd, orders[id])
       THEN /\ opResult' = "400"
            /\ UNCHANGED <<opPc, opCmd, opId>>
       ELSE /\ opPc' = "remote"
            /\ opCmd' = cmd
            /\ opId' = id
            /\ UNCHANGED opResult
    /\ UNCHANGED <<orders, events, pc, cur, outcome, details, second, saved>>
    /\ UNCHANGED authVars
    /\ UNCHANGED pollVars

\* what the ifood_client call of the endpoint gives: its result, its result
\* with a pending status (the 202 of confirm_order and request_cancellation),
\* or an exception
RemoteResults(cmd) ==
    IF cmd \in {"confirm", "cancel"} THEN {"done", "pending", "raise"}
    ELSE {"done", "raise"}

\* db.orders after the update_one of the endpoint
CommandUpdate(cmd, id) ==
    IF cmd \in UpdatingCommands
    THEN [orders EXCEPT ![id] = CommandSet(cmd, orders[id])]
    ELSE orders

CommandFailureRaises == "raised"
\* except Exception as e: return APIResponse(success=False, error=str(e))
CommandFailure == "failure"

\* the ifood_client call returned or raised: update_one and
\* APIResponse(success=True, data=result), or the exception turned into
\* APIResponse(success=False)
CommandFinish(res) ==
    /\ opPc = "remote"
    /\ res \in RemoteResults(opCmd)
    /\ opPc' = "idle"
    /\ opCmd' = "none"
    /\ opId' = 0
    /\ IF res = "raise"
       THEN /\ opResult' = CommandFailure
            /\ UNCHANGED orders
       ELSE /\ orders' = CommandUpdate(opCmd, opId)
            /\ opResult' = IF res = "pending" THEN "pending" ELSE "success"
    /\ UNCHANGED <<events, pc, cur, outcome, details, second, saved>>
    /\ UNCHANGED authVars
    /\ UNCHANGED pollVars

(***************************************************************************)
(* IFoodClient: the token lifecycle.  Time is counted in minutes.           *)
(***************************************************************************)
NoToken == "None"       \* self._access_token is None
NoExpiry == -1          \* self._token_expires_at / _token_expires_in is None
SafetyMargin == 5       \* margin = timedelta(minutes=5)
DefaultExpiresIn == 180 \* data.get("expiresIn", 10800): 10800 s

MaxClock == 1           \* the clock stops here
NumCallers == 2         \* concurrent callers of the client

Callers == 1..NumCallers

IsTokenValidInverted(tok, exp, t) ==
    tok /= NoToken /\ exp /= NoExpiry /\ t > exp - SafetyMargin
\* _is_token_valid, for a token, its expiry and the time of the check
IsTokenValidAt(tok, exp, t) ==
    tok /= NoToken /\ exp /= NoExpiry /\ t < exp - SafetyMargin

IsTokenValid == IsTokenValidAt(access_token, token_expires_at, now)

\* What the token endpoint may answer: 200 with an expiresIn (or none, and
\* the default applies), an error status, or no answer at all.
TokenAnswers ==
    [type : {"ok"}, expiresIn : {<<>>, <<0>>, <<6>>}]
        \cup {[type |-> "http_error", expiresIn |-> <<>>],
              [type |-> "network_error", expiresIn |-> <<>>]}

\* data.get("expiresIn", 10800)
ExpiresIn(ans) ==
    IF ans.expiresIn = <<>> THEN DefaultExpiresIn ELSE ans.expiresIn[1]

(***************************************************************************)
(* IFoodClient: the outbound calls.  A call is: _get_headers (authenticate  *)
(* without force), the request, on 401 authenticate(force_refresh=True),    *)
(* _get_headers again and the request again, then the final handling.       *)
(***************************************************************************)
\* the operations of the client, by the handling of their final response
\* ("picking_item" is any of add_, modify_, replace_ and remove_picking_item)
Operations == {"confirm_order", "start_preparation", "ready_to_pickup",
               "dispatch_order", "request_cancellation", "get_order_tracking",
               "start_separation", "end_separation", "picking_item",
               "get_order_details", "poll_events", "acknowledge_events",
               "get_merchants"}

\* a caller runs authenticate() itself (GET /auth/token) or an operation
Kinds == {"authenticate", "operation"}

Statuses == {200, 202, 204, 401, 404, 500}

NewCall(k, valid) ==
    [pc |-> "idle", kind |-> k, phase |-> "headers", attempt |-> 1,
     opReqs |-> 0, tokReqs |-> 0, forced |-> 0, status |-> 0,
     result |-> "none", startedValid |-> valid]

\* client.get / client.post of the operation, attempt n
SendOp(r, n) == [r EXCEPT !.pc = "op_wait", !.attempt = n, !.opReqs = @ + 1]

\* client.post to /authentication/v1.0/oauth/token
SendToken(r, ph) == [r EXCEPT !.pc = "auth_wait", !.phase = ph, !.tokReqs = @ + 1]

\* the call returns res or raises ("error"): its locals are gone, the caller
\* keeps the result and the last status
Finish(r, res) ==
    [NewCall("none", FALSE) EXCEPT !.status = r.status, !.result = res]

\* authenticate() returned to _get_headers, which returns the headers; the
\* request of attempt n follows without an await
HeadersReturned(r, n) ==
    IF r.kind = "authenticate" THEN Finish(r, "success") ELSE SendOp(r, n)

\* _get_headers before attempt n: authenticate() reuses a valid token, else
\* sends a token request
GetHeaders(r, valid, n) ==
    IF valid THEN HeadersReturned(r, n)
    ELSE SendToken([r EXCEPT !.attempt = n], "headers")

RetryEvery401(st, attempt) == st = 401
\* if response.status_code == 401, on the first response only:
\* authenticate(force_refresh=True), _get_headers, the request again
ShouldRetry(st, attempt) == st = 401 /\ attempt = 1

FinalResultNoPending(k, st) ==
    CASE st = 204 /\ k = "poll_events" -> "empty"
      [] st = 404 /\ k \in {"get_order_details", "get_order_tracking"} -> "notfound"
      [] st \in {401, 404, 500} -> "error"
      [] OTHER -> "success"
\* the handling of the final response, per operation: the empty poll, the
\* not-found dict, the pending status, raise_for_status, the result
FinalResult(k, st) ==
    CASE st = 204 /\ k = "poll_events" -> "empty"
      [] st = 404 /\ k \in {"get_order_details", "get_order_tracking"} -> "notfound"
      [] st = 202 /\ k \in {"confirm_order", "request_cancellation"} -> "pending"
      [] st \in {401, 404, 500} -> "error"
      [] OTHER -> "success"

MissingCredentialsIdOnly == client_id = NoId
\* if not self.client_id or not self.client_secret: raise ValueError
MissingCredentials == client_id = NoId \/ client_secret = NoId

\* a caller starts authenticate() or an operation of the client
Call(c, k) ==
    /\ calls[c].pc = "idle"
    /\ calls' = [calls EXCEPT ![c] =
                    IF MissingCredentials
                    THEN Finish(NewCall(k, IsTokenValid), "config_error")
                    ELSE GetHeaders(NewCall(k, IsTokenValid), IsTokenValid, 1)]
    /\ UNCHANGED <<access_token, token_expires_at, token_expires_in, now>>
    /\ UNCHANGED <<lastOp, client_id, client_secret>>
    /\ UNCHANGED procVars
    /\ UNCHANGED pollVars

\* the token endpoint answered (or the request failed)
TokenResponse(c, ans) ==
    LET r == calls[c] IN
    /\ r.pc = "auth_wait"
    /\ IF ans.type = "ok"
       THEN /\ access_token' = "token"
            /\ token_expires_in' = ExpiresIn(ans)
            /\ token_expires_at' = now + ExpiresIn(ans)
            /\ calls' = [calls EXCEPT ![c] =
                  IF r.phase = "forced"
                  THEN GetHeaders(r, IsTokenValidAt("token", now + ExpiresIn(ans), now), 2)
                  ELSE HeadersReturned(r, r.attempt)]
       ELSE /\ calls' = [calls EXCEPT ![c] = Finish(r, "error")]
            /\ IF ans.type = "http_error"
               THEN /\ access_token' = NoToken
                    /\ token_expires_at' = NoExpiry
                    /\ UNCHANGED token_expires_in
               ELSE UNCHANGED <<access_token, token_expires_at, token_expires_in>>
    /\ UNCHANGED now
    /\ UNCHANGED <<lastOp, client_id, client_secret>>
    /\ UNCHANGED procVars
    /\ UNCHANGED pollVars

\* The endpoint of operation k answered.  Which operation the call is matters
\* only to the handling of its final response.
OpReturn(c, st, k) ==
    LET r == [calls[c] EXCEPT !.status = st] IN
    /\ calls[c].pc = "op_wait"
    /\ IF ShouldRetry(st, r.attempt)
       THEN calls' = [calls EXCEPT ![c] =
                         SendToken([r EXCEPT !.forced = @ + 1], "forced")]
       ELSE calls' = [calls EXCEPT ![c] = Finish(r, FinalResult(k, st))]
    /\ UNCHANGED <<access_token, token_expires_at, token_expires_in, now>>
    /\ UNCHANGED <<client_id, client_secret>>
    /\ UNCHANGED procVars
    /\ UNCHANGED pollVars

\* one operation for each handling of the final response: the others handle
\* it as dispatch_order does, get_order_tracking as get_order_details and
\* request_cancellation as confirm_order
HandlingKinds ==
    {"poll_events", "get_order_details", "confirm_order", "dispatch_order"}

\* the endpoint of some operation answered
OpResponse(c, st) ==
    /\ \E k \in HandlingKinds : OpReturn(c, st, k)
    /\ UNCHANGED lastOp

\* the endpoint of operation k answered, and the operation is on record when
\* the call ends
GatewayResponse(c, st, k) ==
    /\ OpReturn(c, st, k)
    /\ lastOp' = IF ShouldRetry(st, calls[c].attempt) THEN lastOp ELSE k

\* time passes
Tick ==
    /\ now < MaxClock
    /\ now' = now + 1
    /\ UNCHANGED <<access_token, token_expires_at, token_expires_in, calls>>
    /\ UNCHANGED <<lastOp, client_id, client_secret>>
    /\ UNCHANGED procVars
    /\ UNCHANGED pollVars

(***************************************************************************)
(* The poller: polling_loop, force_poll, start_polling, stop_polling.      *)
(* A runner of poll cycles is a polling_loop task or the force_poll         *)
(* endpoint; cyc[w] holds the locals of its current cycle.                  *)
(***************************************************************************)
NoTask == "None"        \* polling_task is None
NoPoll == 0             \* last_poll_at was never written; cycles count from 1
NoCount == -1           \* events_received was never written

MaxCycles == 2          \* poll cycles the loop tasks start in all
MaxStarts == 3          \* loop tasks start_polling creates in all

\* the events the remote platform holds for the merchant, in feed order
PollFeed == <<"E1", "E3">>

\* what a poll returns: the events not acknowledged yet
Unacked == SelectSeq(PollFeed, LAMBDA e : e \notin acked)

\* the ids of a batch
BatchIds(batch) == {batch[i] : i \in DOMAIN batch}

\* the locals of a runner at position p, nothing fetched yet
NewCycle(p) ==
    [pc |-> p, batch |-> <<>>, handed |-> 0, acks |-> 0, answer |-> "none",
     no |-> 0, cancel |-> FALSE, failed |-> "none", redo |-> FALSE,
     result |-> "none", wait |-> 0]

\* db.polling_status before the first upsert
NoStatus ==
    [stored |-> FALSE, last_poll_at |-> NoPoll, events_received |-> NoCount,
     errors_count |-> 0, last_error |-> "absent", is_active |-> "absent",
     connection_status |-> "absent"]

\* the cycle ended without exception: the loop goes on to its status update,
\* force_poll returns APIResponse(success=True)
Succeeded(w, c) ==
    IF w \in LoopTasks THEN [c EXCEPT !.pc = "status_ok"]
    ELSE [NewCycle("idle") EXCEPT !.result = "success"]

\* an exception reached the cycle's except Exception: the loop goes on to its
\* error status update, force_poll returns APIResponse(success=False)
Failed(w, c, what) ==
    IF w \in LoopTasks THEN [c EXCEPT !.pc = "status_err", !.failed = what]
    ELSE [NewCycle("idle") EXCEPT !.result = "failure"]

AfterProcessAlwaysAcks(w, c) == [c EXCEPT !.pc = "ack", !.acks = @ + 1]
\* after the for loop: if events: acknowledge_events(event_ids)
AfterProcess(w, c) ==
    IF Len(c.batch) > 0 THEN [c EXCEPT !.pc = "ack", !.acks = @ + 1]
    ELSE Succeeded(w, c)

StartIgnoresActive == FALSE
\* start_polling: if polling_active: return
AlreadyActive == polling_active

\* the task object asyncio.create_task returns: a slot no live task holds
NewTask ==
    IF cyc["polling_loop"].pc \in {"none", "done"} /\ stopTask /= "polling_loop"
    THEN "polling_loop" ELSE "polling_loop_2"

\* POST /polling/start
StartPolling ==
    /\ IF AlreadyActive
       THEN UNCHANGED pollVars
       ELSE /\ starts < MaxStarts
            /\ cyc[NewTask].pc \in {"none", "done"}
            /\ stopTask /= NewTask
            /\ polling_active' = TRUE
            /\ polling_task' = NewTask
            /\ cyc' = [cyc EXCEPT ![NewTask] = NewCycle("begin")]
            /\ starts' = starts + 1
            /\ UNCHANGED <<polling_status, acked, stopPc, stopTask, cycles>>
    /\ UNCHANGED procVars
    /\ UNCHANGED authVars

\* polling_loop: while polling_active, at the start of the task and after
\* asyncio.sleep(30); the poll request of the next cycle is sent
LoopCheck(t) ==
    /\ cyc[t].pc \in {"begin", "sleep"}
    /\ ~cyc[t].cancel
    /\ IF polling_active
       THEN /\ cycles < MaxCycles
            /\ cycles' = cycles + 1
            /\ cyc' = [cyc EXCEPT ![t] =
                          [NewCycle("poll") EXCEPT !.no = cycles + 1,
                                                   !.redo = (cyc[t].failed = "ack")]]
       ELSE /\ cyc' = [cyc EXCEPT ![t] = NewCycle("done")]
            /\ UNCHANGED cycles
    /\ UNCHANGED <<polling_active, polling_task, polling_status, acked, stopPc,
                   stopTask, starts>>
    /\ UNCHANGED procVars
    /\ UNCHANGED authVars

\* POST /polling/force: the poll request is sent
ForcePoll ==
    /\ cyc["force_poll"].pc = "idle"
    /\ cyc' = [cyc EXCEPT !["force_poll"] = NewCycle("poll")]
    /\ UNCHANGED <<polling_active, polling_task, polling_status, acked, stopPc,
                   stopTask, cycles, starts>>
    /\ UNCHANGED procVars
    /\ UNCHANGED authVars

EmptyIsError(w, c) == Failed(w, c, "poll")
\* poll_events on 204: {"events": []}, and the cycle goes on with no events
EmptyAnswer(w, c) == AfterProcess(w, c)

\* what ifood_client.poll_events gives the cycle: the events (200), no events
\* (204), or an exception
PollAnswers == {"events", "empty", "error"}

\* result = await ifood_client.poll_events(...); events = result.get("events", [])
PollResponse(w, ans) ==
    LET c == [cyc[w] EXCEPT !.answer = ans] IN
    /\ cyc[w].pc = "poll"
    /\ ~cyc[w].cancel
    /\ cyc' = [cyc EXCEPT ![w] =
                  CASE ans = "error" -> Failed(w, c, "poll")
                    [] ans = "empty" -> EmptyAnswer(w, c)
                    [] ans = "events" ->
                          IF Unacked = <<>> THEN AfterProcess(w, c)
                          ELSE [c EXCEPT !.batch = Unacked, !.pc = "process"]]
    /\ UNCHANGED <<polling_active, polling_task, polling_status, acked, stopPc,
                   stopTask, cycles, starts>>
    /\ UNCHANGED procVars
    /\ UNCHANGED authVars

\* for event in events: await process_ifood_event(event).  The previous call
\* has returned or raised; an exception leaves the for loop and the try block.
CycleStep(w) ==
    LET c == cyc[w] IN
    /\ c.pc = "process"
    /\ ~c.cancel
    /\ pc[w] = "idle"
    /\ IF c.handed > 0 /\ outcome[w] = "raised"
       THEN /\ cyc' = [cyc EXCEPT ![w] = Failed(w, c, "process")]
            /\ UNCHANGED procVars
            /\ UNCHANGED authVars
       ELSE IF c.handed < Len(c.batch)
       THEN /\ BeginEvent(w, c.batch[c.handed + 1])
            /\ cyc' = [cyc EXCEPT ![w].handed = @ + 1]
       ELSE /\ cyc' = [cyc EXCEPT ![w] = AfterProcess(w, c)]
            /\ UNCHANGED procVars
            /\ UNCHANGED authVars
    /\ UNCHANGED <<polling_active, polling_task, polling_status, acked, stopPc,
                   stopTask, cycles, starts>>

AckRetried(w, c) == [c EXCEPT !.acks = @ + 1]
\* acknowledge_events raised: the exception goes to the cycle's except
AckFailed(w, c) == Failed(w, c, "ack")

\* await ifood_client.acknowledge_events(event_ids) returned or raised
AckResponse(w, ok) ==
    /\ cyc[w].pc = "ack"
    /\ ~cyc[w].cancel
    /\ IF ok
       THEN /\ acked' = acked \cup BatchIds(cyc[w].batch)
            /\ cyc' = [cyc EXCEPT ![w] = Succeeded(w, cyc[w])]
       ELSE /\ cyc' = [cyc EXCEPT ![w] = AckFailed(w, cyc[w])]
            /\ UNCHANGED acked
    /\ UNCHANGED <<polling_active, polling_task, polling_status, stopPc, stopTask,
                   cycles, starts>>
    /\ UNCHANGED procVars
    /\ UNCHANGED authVars

SleepBackoff == 30 * (polling_status.errors_count + 1)
\* await asyncio.sleep(30), the last statement of the loop body
SleepSeconds == 30

\* the task is in its sleep
Sleeping(c) == [c EXCEPT !.wait = SleepSeconds]

\* the $set of the status update at the end of the try block
StatusOnSuccess(c) ==
    [stored |-> TRUE, last_poll_at |-> c.no, events_received |-> Len(c.batch),
     errors_count |-> 0, last_error |-> "None", is_active |-> "true",
     connection_status |-> "connected"]

\* the $set and $inc of the status update of the except block
StatusOnError(st) ==
    [st EXCEPT !.stored = TRUE, !.last_error = "error",
               !.connection_status = "error", !.errors_count = @ + 1]

\* await db.polling_status.update_one(...) of the try block, then the sleep
StatusOk(t) ==
    /\ cyc[t].pc = "status_ok"
    /\ ~cyc[t].cancel
    /\ polling_status' = StatusOnSuccess(cyc[t])
    /\ cyc' = [cyc EXCEPT ![t] = Sleeping(NewCycle("sleep"))]
    /\ UNCHANGED <<polling_active, polling_task, acked, stopPc, stopTask, cycles,
                   starts>>
    /\ UNCHANGED procVars
    /\ UNCHANGED authVars

AfterFailureStops == "done"
\* after the except block the loop body ends with await asyncio.sleep(30)
AfterFailure == "sleep"

\* await db.polling_status.update_one(...) of the except block, then the sleep
StatusErr(t) ==
    /\ cyc[t].pc = "status_err"
    /\ ~cyc[t].cancel
    /\ polling_status' = StatusOnError(polling_status)
    /\ cyc' = [cyc EXCEPT ![t] =
                  Sleeping([NewCycle(AfterFailure) EXCEPT !.failed = cyc[t].failed])]
    /\ UNCHANGED <<polling_active, polling_task, acked, stopPc, stopTask, cycles,
                   starts>>
    /\ UNCHANGED procVars
    /\ UNCHANGED authVars

\* a step of process_ifood_event inside a cycle
ProcessStep(w) ==
    /\ ~cyc[w].cancel
    /\ cyc[w].pc = "process"
    /\ \/ Dedupe(w)
       \/ InsertEvent(w)
       \/ FetchDetails(w)
       \/ SaveOrder(w)
       \/ UpdateOrder(w)
       \/ MarkEvent(w)

\* The operation a cancelled task was awaiting is not undone by the
\* cancellation: it may have reached the database or the platform.
LandedOrders(t) ==
    CASE pc[t] = "save" ->
            Append(orders, NewOrder(IF details[t] = "order"
                                    THEN FeedEvent[cur[t]].orderId ELSE NoId))
      [] pc[t] = "update" ->
            ApplyUpdate(FeedEvent[cur[t]].code, FeedEvent[cur[t]].orderId)
      [] OTHER -> orders

LandedEvents(t) ==
    CASE pc[t] = "insert" /\ ~InsertEventRaises(cur[t]) ->
            events (+) SetToBag({EventDoc(cur[t], FALSE)})
      [] pc[t] = "mark" -> MarkProcessed(cur[t])
      [] OTHER -> events

\* task.cancel(): CancelledError is raised at the await the task is at; no
\* except Exception catches it and the task ends there
TaskCancelled(t, landed) ==
    /\ cyc[t].cancel
    /\ cyc[t].pc \notin {"none", "done"}
    /\ cyc' = [cyc EXCEPT ![t] = NewCycle("done")]
    /\ pc' = [pc EXCEPT ![t] = "idle"]
    /\ cur' = [cur EXCEPT ![t] = NoEvent]
    /\ details' = [details EXCEPT ![t] = "none"]
    /\ outcome' = [outcome EXCEPT ![t] = IF pc[t] = "idle" THEN @ ELSE "cancelled"]
    /\ orders' = IF landed THEN LandedOrders(t) ELSE orders
    /\ events' = IF landed THEN LandedEvents(t) ELSE events
    /\ saved' = IF landed /\ pc[t] = "save" /\ details[t] = "order"
                THEN saved \cup {cur[t]} ELSE saved
    /\ acked' = IF landed /\ cyc[t].pc = "ack"
                THEN acked \cup BatchIds(cyc[t].batch) ELSE acked
    /\ polling_status' =
          IF landed /\ cyc[t].pc = "status_ok" THEN StatusOnSuccess(cyc[t])
          ELSE IF landed /\ cyc[t].pc = "status_err" THEN StatusOnError(polling_status)
          ELSE polling_status
    /\ UNCHANGED <<opPc, opCmd, opId, opResult, second>>
    /\ UNCHANGED <<polling_active, polling_task, stopPc, stopTask, cycles, starts>>
    /\ UNCHANGED authVars

\* POST /polling/stop: polling_active = False; polling_task.cancel(); await it
StopBegin ==
    /\ stopPc = "idle"
    /\ polling_active' = FALSE
    /\ IF polling_task = NoTask
       THEN /\ stopPc' = "status"
            /\ UNCHANGED <<polling_task, cyc, stopTask>>
       ELSE IF cyc[polling_task].pc = "done"
       THEN /\ polling_task' = NoTask
            /\ stopPc' = "status"
            /\ UNCHANGED <<cyc, stopTask>>
       ELSE /\ cyc' = [cyc EXCEPT ![polling_task].cancel = TRUE]
            /\ stopTask' = polling_task
            /\ stopPc' = "await_task"
            /\ UNCHANGED polling_task
    /\ UNCHANGED <<polling_status, acked, cycles, starts>>
    /\ UNCHANGED procVars
    /\ UNCHANGED authVars

\* the awaited task has ended: polling_task = None
StopAwaited ==
    /\ stopPc = "await_task"
    /\ cyc[stopTask].pc = "done"
    /\ polling_task' = NoTask
    /\ stopTask' = NoTask
    /\ stopPc' = "status"
    /\ UNCHANGED <<polling_active, cyc, polling_status, acked, cycles, starts>>
    /\ UNCHANGED procVars
    /\ UNCHANGED authVars

\* stop_polling: await db.polling_status.update_one(...), then the response
StopStatus ==
    /\ stopPc = "status"
    /\ polling_status' = [polling_status EXCEPT !.stored = TRUE,
                                                !.is_active = "false",
                                                !.connection_status = "disconnected"]
    /\ stopPc' = "idle"
    /\ UNCHANGED <<polling_active, polling_task, cyc, acked, stopTask, cycles,
                   starts>>
    /\ UNCHANGED procVars
    /\ UNCHANGED authVars

(***************************************************************************)
(* Specifications                                                          *)
(***************************************************************************)
InitState ==
    /\ orders = <<>>
    /\ events = EmptyBag
    /\ pc = [w \in Runners |-> "idle"]
    /\ cur = [w \in Runners |-> NoEvent]
    /\ outcome = [w \in Runners |-> "none"]
    /\ details = [w \in Runners |-> "none"]
    /\ opPc = "idle"
    /\ opCmd = "none"
    /\ opId = 0
    /\ opResult = "none"
    /\ second = [w \in Runners |-> FALSE]
    /\ saved = {}
    /\ access_token = NoToken
    /\ token_expires_at = NoExpiry
    /\ token_expires_in = NoExpiry
    /\ now = 0
    /\ calls = [c \in Callers |-> NewCall("none", FALSE)]
    /\ lastOp = "none"
    /\ polling_active = FALSE
    /\ polling_task = NoTask
    /\ cyc = [w \in Runners |-> NewCycle(IF w \in LoopTasks THEN "none" ELSE "idle")]
    /\ polling_status = NoStatus
    /\ acked = {}
    /\ stopPc = "idle"
    /\ stopTask = NoTask
    /\ cycles = 0
    /\ starts = 0

\* the state after construction, IFOOD_CLIENT_ID and IFOOD_CLIENT_SECRET set
Init ==
    /\ InitState
    /\ client_id = "id"
    /\ client_secret = "secret"

\* the state after construction, whatever the environment holds
InitConfig ==
    /\ InitState
    /\ client_id \in {"id", NoId}
    /\ client_secret \in {"secret", NoId}

\* Every event of the feed, processed by the polling loop.
Next ==
    \/ \E e \in EventIds : Deliver("polling_loop", e)
    \/ Dedupe("polling_loop")
    \/ InsertEvent("polling_loop")
    \/ FetchDetails("polling_loop")
    \/ SaveOrder("polling_loop")
    \/ UpdateOrder("polling_loop")
    \/ MarkEvent("polling_loop")

Spec == Init /\ [][Next]_vars

\* one event of each type whose branch writes an order status
StatusEventIds == {"E1", "E2", "E3", "E4", "E5"}

\* Event processing by the polling loop and a forced poll, concurrently.
NextRace ==
    \/ \E w \in Workers, e \in StatusEventIds : Deliver(w, e)
    \/ \E w \in Workers : Dedupe(w)
    \/ \E w \in Workers : InsertEvent(w)
    \/ \E w \in Workers : FetchDetails(w)
    \/ \E w \in Workers : SaveOrder(w)
    \/ \E w \in Workers : UpdateOrder(w)
    \/ \E w \in Workers : MarkEvent(w)

SpecRace == Init /\ [][NextRace]_vars

\* Status events processed by the polling loop, with operator commands in
\* between.
NextOps ==
    \/ \E e \in StatusEventIds : Deliver("polling_loop", e)
    \/ Dedupe("polling_loop")
    \/ InsertEvent("polling_loop")
    \/ FetchDetails("polling_loop")
    \/ SaveOrder("polling_loop")
    \/ UpdateOrder("polling_loop")
    \/ MarkEvent("polling_loop")
    \/ \E cmd \in Commands, id \in 1..MaxLocalId : CommandBegin(cmd, id)
    \/ \E res \in {"done", "pending", "raise"} : CommandFinish(res)

SpecOps == Init /\ [][NextOps]_vars

\* Concurrent callers of the client against the token and operation endpoints.
NextAuth ==
    \/ \E c \in Callers, k \in Kinds : Call(c, k)
    \/ \E c \in Callers, ans \in TokenAnswers : TokenResponse(c, ans)
    \/ \E c \in Callers, st \in Statuses : OpResponse(c, st)
    \/ Tick

SpecAuth == Init /\ [][NextAuth]_vars

\* The same callers, the client constructed with or without its credentials.
SpecConfig == InitConfig /\ [][NextAuth]_vars

\* One caller of the operations of the client, the operation of each of its
\* calls on record.
NextGateway ==
    \/ Call(1, "operation")
    \/ \E ans \in TokenAnswers : TokenResponse(1, ans)
    \/ \E st \in Statuses, k \in Operations : GatewayResponse(1, st, k)
    \/ Tick

SpecGateway == Init /\ [][NextGateway]_vars

\* The polling loop, started and stopped by the operator.
NextPoll ==
    \/ StartPolling
    \/ StopBegin
    \/ StopAwaited
    \/ StopStatus
    \/ \E t \in LoopTasks : LoopCheck(t)
    \/ \E t \in LoopTasks, ans \in PollAnswers : PollResponse(t, ans)
    \/ \E t \in LoopTasks : CycleStep(t)
    \/ \E t \in LoopTasks : ProcessStep(t)
    \/ \E t \in LoopTasks, ok \in BOOLEAN : AckResponse(t, ok)
    \/ \E t \in LoopTasks : StatusOk(t)
    \/ \E t \in LoopTasks : StatusErr(t)
    \/ \E t \in LoopTasks, landed \in BOOLEAN : TaskCancelled(t, landed)

SpecPoll == Init /\ [][NextPoll]_vars

\* The event loop runs every task that is ready: a loop task whose status
\* update or sleep is over goes on.
MaxFairStarts == 2      \* loop tasks created in the runs checked for progress

\* the steps of the poller while the bound on restarts allows a start
NextPollFair ==
    \/ (polling_active \/ starts < MaxFairStarts) /\ StartPolling
    \/ StopBegin
    \/ StopAwaited
    \/ StopStatus
    \/ \E t \in LoopTasks : LoopCheck(t)
    \/ \E t \in LoopTasks, ans \in PollAnswers : PollResponse(t, ans)
    \/ \E t \in LoopTasks : CycleStep(t)
    \/ \E t \in LoopTasks : ProcessStep(t)
    \/ \E t \in LoopTasks, ok \in BOOLEAN : AckResponse(t, ok)
    \/ \E t \in LoopTasks : StatusOk(t)
    \/ \E t \in LoopTasks : StatusErr(t)
    \/ \E t \in LoopTasks, landed \in BOOLEAN : TaskCancelled(t, landed)

SpecPollFair ==
    /\ Init /\ [][NextPollFair]_vars
    /\ \A t \in LoopTasks : WF_vars(StatusErr(t)) /\ WF_vars(LoopCheck(t))

\* The polling loop, once started, with forced polls running beside it.
NextForce ==
    \/ StartPolling
    \/ ForcePoll
    \/ \E t \in LoopTasks : LoopCheck(t)
    \/ \E w \in Runners, ans \in PollAnswers : PollResponse(w, ans)
    \/ \E w \in Runners : CycleStep(w)
    \/ \E w \in Runners : ProcessStep(w)
    \/ \E w \in Runners, ok \in BOOLEAN : AckResponse(w, ok)
    \/ \E t \in LoopTasks : StatusOk(t)
    \/ \E t \in LoopTasks : StatusErr(t)

SpecForce == Init /\ [][NextForce]_vars

(***************************************************************************)
(* Properties of event processing                                          *)
(***************************************************************************)
\* C1: a second sequential call of process_ifood_event with an event id that
\* was already applied changes no Order and no Event Record and does not
\* raise: the call is over after its first step, which leaves both stores as
\* they are and returns.
C1_SecondCallIsNoOp ==
    [][\A w \in Workers :
          (second[w] /\ pc[w] /= "idle" /\ pc'[w] /= pc[w]) =>
              /\ orders' = orders
              /\ events' = events
              /\ pc'[w] = "idle"
              /\ outcome'[w] = "returned"]_vars

\* C1 witness: a second sequential call has returned, with an order stored and
\* its event processed.
C1_Witness ==
    \E w \in Workers :
        /\ second[w] /\ pc[w] = "idle" /\ outcome[w] = "returned"
        /\ Len(orders) = 1 /\ orders[1].status = "DISPATCHED"
        /\ CopiesIn(EventDoc("E3", TRUE), events) = 1

\* s -> t is a forward move of the lifecycle or a jump to CANCELLED
Forward(s, t) ==
    \/ t = s
    \/ t = "CANCELLED"
    \/ s /= "CANCELLED" /\ Rank(s) < Rank(t)

\* C2: whatever events process_ifood_event applies, an order's status only
\* moves forward through the lifecycle or jumps to CANCELLED.
C2_StatusOnlyForward ==
    [][\A i \in DOMAIN orders : Forward(orders[i].status, orders'[i].status)]_vars

\* C3: CONCLUDED and CANCELLED are terminal: no inbound event and no operator
\* command changes the status of an order that is CONCLUDED or CANCELLED.
C3_TerminalStatus ==
    [][\A i \in DOMAIN orders :
          orders[i].status \in {"CONCLUDED", "CANCELLED"} =>
              orders'[i].status = orders[i].status]_vars

RemoteOrders == {FeedEvent[e].orderId : e \in EventIds}

\* C4: the Event Record store holds at most one record per remote event id,
\* and a PLACED event creates its Order once however often it is delivered:
\* the Orders with a remote id are as many as the PLACED event ids whose
\* order was saved.
C4_OneRecordPerEventId ==
    /\ \A e \in EventIds : CountEvent(e) <= 1
    /\ \A o \in RemoteOrders :
          Cardinality(MatchIfood(o)) =
              Cardinality({e \in saved : FeedEvent[e].orderId = o})

\* C4 witness: E1 (PLACED, O1) was delivered twice, the second delivery was
\* absorbed, and there is one Order O1 and one record of E1.
C4_Witness ==
    /\ \E w \in Workers : second[w] /\ pc[w] = "idle" /\ outcome[w] = "returned"
    /\ \A w \in Workers : pc[w] = "idle"
    /\ events = SetToBag({EventDoc("E1", TRUE)})
    /\ Cardinality(MatchIfood("O1")) = 1

\* the timestamp field that goes with a status event
TimestampOf(code, o) ==
    CASE code = "CONFIRMED" -> o.confirmed_at
      [] code = "DISPATCHED" -> o.dispatched_at
      [] code = "CONCLUDED" -> o.concluded_at

\* C5: an inbound CONFIRMED, DISPATCHED or CONCLUDED event applied to an
\* existing order sets the order's status and the corresponding timestamp.
C5_StatusEventSetsTimestamp ==
    [][\A w \in Workers :
          LET code == FeedEvent[cur[w]].code
              match == MatchIfood(FeedEvent[cur[w]].orderId)
          IN  (/\ pc[w] = "update" /\ pc'[w] = "mark"
               /\ code \in {"CONFIRMED", "DISPATCHED", "CONCLUDED"}
               /\ match /= {}) =>
                  /\ orders'[Min(match)].status = code
                  /\ TimestampOf(code, orders'[Min(match)]) /= NoTime]_vars

(***************************************************************************)
(* Properties of the token lifecycle and the outbound calls                 *)
(***************************************************************************)
\* C6: callers that request authorization concurrently while the stored token
\* is missing or expired cause one request to the token endpoint, not one per
\* caller: no two token requests are in flight together.
C6_SingleTokenRequest ==
    Cardinality({c \in Callers : calls[c].pc = "auth_wait"}) <= 1

C8_HeaderTokenNotExpired ==
    [][\A c \in Callers :
          (calls[c].pc /= "op_wait" /\ calls'[c].pc = "op_wait") =>
              /\ access_token' /= NoToken
              /\ token_expires_at' /= NoExpiry
              /\ token_expires_at' > now']_vars

\* C9: an operation started with a valid stored token whose first attempt is
\* answered 401 and whose retry succeeds returns its success result after
\* exactly 2 requests to the operation endpoint and exactly 1 request to the
\* token endpoint.
C9_RetryOneTokenRequest ==
    [][\A c \in Callers :
          (/\ calls[c].pc = "op_wait" /\ calls[c].attempt = 2
           /\ calls[c].startedValid
           /\ calls'[c].pc = "idle"
           /\ calls'[c].result \in {"success", "pending"}) =>
              /\ calls[c].opReqs = 2
              /\ calls[c].tokReqs = 1]_vars

\* C10: a call whose first attempt and single retry are both answered 401
\* fails with an error; one call never sends more than 2 requests to the
\* operation endpoint and never makes more than 1 forced re-authentication.
C10_SecondRejectionFails ==
    \A c \in Callers :
        /\ calls[c].opReqs <= 2
        /\ calls[c].forced <= 1
        /\ (calls[c].pc = "idle" /\ calls[c].status = 401) =>
               calls[c].result = "error"

\* C10 witness: a call has failed on the 401 that answered its retry.
C10_Witness ==
    \E c \in Callers :
        calls[c].pc = "idle" /\ calls[c].status = 401 /\ calls[c].result = "error"

(***************************************************************************)
(* Properties of the poller                                                *)
(***************************************************************************)
\* C11: within one poll cycle a failure while processing one event does not
\* abort the cycle: the for loop over a fetched batch is left only after every
\* event of the batch was handed to process_ifood_event, and it is left for
\* the acknowledgment of the batch.
C11_EventFailureKeepsCycle ==
    [][\A w \in Runners :
          (cyc[w].pc = "process" /\ cyc'[w].pc /= "process" /\ ~cyc[w].cancel) =>
              /\ cyc[w].handed = Len(cyc[w].batch)
              /\ cyc'[w].pc = "ack"]_vars

\* C12: stopping the poller drops no fetched event: a loop task that ends
\* holding a fetched batch has that batch acknowledged.
C12_StopKeepsFetched ==
    [][\A t \in LoopTasks :
          (cyc[t].pc /= "done" /\ cyc'[t].pc = "done") =>
              BatchIds(cyc[t].batch) \subseteq acked']_vars

\* C13: the status update that ends a poll cycle, succeeded or failed, writes
\* the last poll time and the event count of that cycle, and sets the error
\* counter to 0 on success or raises it by exactly 1 on failure.
C13_CycleUpdatesStatus ==
    [][\A t \in LoopTasks :
          (cyc[t].pc \in {"status_ok", "status_err"} /\ cyc'[t].pc = "sleep") =>
              /\ polling_status'.last_poll_at = cyc[t].no
              /\ polling_status'.events_received = Len(cyc[t].batch)
              /\ polling_status'.errors_count =
                    IF cyc[t].pc = "status_ok" THEN 0
                    ELSE polling_status.errors_count + 1]_vars

\* C14: a poll answered 204 yields zero events; the cycle hands nothing to
\* process_ifood_event, sends no acknowledgment, and goes straight to the
\* successful status update: events_received 0, errors_count 0, no error
\* (the cycle of a task that stop_polling has not cancelled).
C14_EmptyPollSucceeds ==
    [][\A t \in LoopTasks :
          /\ (cyc[t].pc = "poll" /\ cyc'[t].answer = "empty") =>
                /\ cyc'[t].pc = "status_ok"
                /\ cyc'[t].batch = <<>>
                /\ cyc'[t].handed = 0 /\ cyc'[t].acks = 0
                /\ pc'[t] = "idle"
                /\ UNCHANGED <<orders, events, acked>>
          /\ (cyc[t].answer = "empty" /\ cyc'[t].pc /= cyc[t].pc /\ ~cyc[t].cancel) =>
                /\ cyc[t].pc = "status_ok" /\ cyc'[t].pc = "sleep"
                /\ polling_status'.events_received = 0
                /\ polling_status'.errors_count = 0
                /\ polling_status'.last_error = "None"
                /\ polling_status'.connection_status = "connected"]_vars

\* C14 witness: with events still unacknowledged on the platform, a cycle
\* ended in a successful status update that counts zero events.
C14_Witness ==
    /\ \E t \in LoopTasks : cyc[t].pc = "sleep" /\ cyc[t].failed = "none"
    /\ acked = {} /\ events = EmptyBag
    /\ polling_status.stored
    /\ polling_status.events_received = 0
    /\ polling_status.errors_count = 0

C16_StartIdempotent ==
    [][\A t \in LoopTasks :
          (cyc[t].pc \in {"none", "done"} /\ cyc'[t].pc \notin {"none", "done"}) =>
              /\ ~polling_active /\ polling_active'
              /\ polling_task' = t
              /\ cyc'[t] = NewCycle("begin")]_vars

\* C16 witness: stop_polling is over, polling was started a second time, and
\* the new loop has fetched events.
C16_Witness ==
    /\ starts = 2 /\ stopPc = "idle" /\ polling_active
    /\ polling_task /= NoTask
    /\ cyc[polling_task].pc = "process"
    /\ polling_status.connection_status = "disconnected"

\* C17: a failed acknowledgment is not repeated in its cycle, the loop goes
\* on to its error status update, and in the cycle after it the events
\* received again change neither Orders nor Event Records.
C17_AckFailureNotRetried ==
    [][\A t \in LoopTasks :
          /\ cyc'[t].acks <= 1
          /\ (cyc[t].pc = "ack" /\ cyc'[t].pc \notin {"ack", "status_ok"}
               /\ ~cyc[t].cancel) =>
                 cyc'[t].pc = "status_err" /\ cyc'[t].failed = "ack"
          /\ (cyc[t].redo /\ pc'[t] /= pc[t]) =>
                 orders' = orders /\ events' = events]_vars

\* C17 witness: in the cycle after a failed acknowledgment both events of the
\* batch came again and were absorbed.
C17_Witness ==
    \E t \in LoopTasks :
        /\ cyc[t].redo /\ cyc[t].pc = "process" /\ cyc[t].handed = 2
        /\ pc[t] = "idle" /\ outcome[t] = "returned" /\ second[t]
        /\ Len(orders) = 1

\* C18: after a failed authentication attempt (the token endpoint rejects the
\* request, or the request fails) no access token is stored, so the token is
\* invalid for the next authorization request.
C18_FailedAuthClearsToken ==
    [][\A c \in Callers :
          (calls[c].pc = "auth_wait" /\ calls'[c].pc = "idle"
           /\ calls'[c].result = "error") =>
              /\ access_token' = NoToken
              /\ ~IsTokenValidAt(access_token', token_expires_at', now')]_vars

\* the event types that update an order's status
StatusUpdateTypes == {"CONFIRMED", "DISPATCHED", "CONCLUDED", "CANCELLED"}

\* C19: a CONFIRMED, DISPATCHED, CONCLUDED or CANCELLED event whose remote
\* order id matches no local order leaves the Order store as it is, does not
\* raise, and is stored as an Event Record.
C19_UnknownOrderIsNoOp ==
    [][\A w \in Workers :
          (/\ pc[w] \in {"update", "mark"} /\ pc'[w] /= pc[w]
           /\ FeedEvent[cur[w]].code \in StatusUpdateTypes
           /\ MatchIfood(FeedEvent[cur[w]].orderId) = {}) =>
              /\ orders' = orders
              /\ CountEvent(cur[w]) = 1
              /\ pc[w] = "update" => pc'[w] = "mark"
              /\ pc[w] = "mark" =>
                    /\ pc'[w] = "idle" /\ outcome'[w] = "returned"
                    /\ CopiesIn(EventDoc(cur[w], TRUE), events') = 1]_vars

\* C19 witness: CONFIRMED E2 was processed and stored while no order exists.
C19_Witness ==
    /\ orders = <<>>
    /\ CopiesIn(EventDoc("E2", TRUE), events) = 1
    /\ pc["polling_loop"] = "idle" /\ outcome["polling_loop"] = "returned"

\* the event types process_ifood_event has a branch for
HandledTypes == UpdateTypes \cup {"PLACED"}

\* C20: an event of any other type is stored as an Event Record and leaves
\* every Order unchanged.
C20_UnmappedTypeStoredOnly ==
    [][\A w \in Workers :
          (/\ pc[w] /= "idle" /\ pc'[w] /= pc[w]
           /\ FeedEvent[cur[w]].code \notin HandledTypes) =>
              /\ orders' = orders
              /\ (pc[w] = "insert" /\ CountEvent(cur[w]) = 0) =>
                    pc'[w] = "mark" /\ CountEvent(cur[w])' = 1
              /\ pc[w] = "mark" =>
                    /\ outcome'[w] = "returned"
                    /\ CopiesIn(EventDoc(cur[w], TRUE), events') = 1]_vars

\* C20 witness: with an order stored, RECOMMENDED_PREPARATION_START E8 and
\* PREPARATION_STARTED E9 were stored and the order is as it was created.
C20_Witness ==
    /\ Len(orders) = 1 /\ orders[1] = NewOrder("O1")
    /\ CopiesIn(EventDoc("E8", TRUE), events) = 1
    /\ CopiesIn(EventDoc("E9", TRUE), events) = 1

(***************************************************************************)
(* Properties of the order state machine                                   *)
(***************************************************************************)
\* the lifecycle fields of an order: its status and its timestamps
Lifecycle(o) ==
    <<o.status, o.confirmed_at, o.dispatched_at, o.concluded_at, o.cancelled_at>>

\* C21: applying an ASSIGN_DRIVER event changes only the driver of the order
\* it names: the status and the lifecycle timestamps of every order are left
\* as they were, whatever the status, and no other field of any order changes.
C21_AssignDriverOnlyDriver ==
    [][\A w \in Workers :
          (pc[w] = "update" /\ pc'[w] /= pc[w]
           /\ FeedEvent[cur[w]].code = "ASSIGN_DRIVER") =>
              /\ Len(orders') = Len(orders)
              /\ \A i \in DOMAIN orders :
                    /\ Lifecycle(orders'[i]) = Lifecycle(orders[i])
                    /\ orders'[i] = [orders[i] EXCEPT !.driver = orders'[i].driver]
              /\ \A i \in MatchIfood(FeedEvent[cur[w]].orderId) :
                    i = Min(MatchIfood(FeedEvent[cur[w]].orderId)) =>
                        orders'[i].driver = "driver"]_vars

\* C21 witness: ASSIGN_DRIVER E6 was applied to an order that is CONCLUDED.
C21_Witness ==
    /\ Len(orders) = 1 /\ orders[1].driver = "driver"
    /\ orders[1].status = "CONCLUDED" /\ orders[1].concluded_at = Stamp
    /\ CopiesIn(EventDoc("E6", TRUE), events) = 1

\* C22: a DISPATCHED or CONCLUDED event applied to an order that never
\* received CONFIRMED is not rejected and does not raise: the status and the
\* timestamp of the event are written and the call returns.
C22_OutOfOrderApplied ==
    [][\A w \in Workers :
          LET code == FeedEvent[cur[w]].code
              match == MatchIfood(FeedEvent[cur[w]].orderId)
          IN  (/\ pc[w] \in {"update", "mark"} /\ pc'[w] /= pc[w]
               /\ code \in {"DISPATCHED", "CONCLUDED"}
               /\ match /= {}
               /\ CountEvent("E2") = 0) =>
                  /\ pc[w] = "update" =>
                        /\ pc'[w] = "mark"
                        /\ orders'[Min(match)].status = code
                        /\ TimestampOf(code, orders'[Min(match)]) = Stamp
                  /\ pc[w] = "mark" =>
                        /\ pc'[w] = "idle" /\ outcome'[w] = "returned"
                        /\ orders'[Min(match)].status = code]_vars

\* C22 witness: DISPATCHED E3 was applied to an order that was PLACED and
\* never received CONFIRMED.
C22_Witness ==
    /\ Len(orders) = 1 /\ orders[1].status = "DISPATCHED"
    /\ orders[1].dispatched_at = Stamp /\ orders[1].confirmed_at = NoTime
    /\ CountEvent("E2") = 0 /\ CountEvent("E4") = 0 /\ CountEvent("E5") = 0
    /\ CopiesIn(EventDoc("E3", TRUE), events) = 1

\* C23: no two Orders of the Order store share a remote id.
C23_UniqueRemoteId ==
    \A i, j \in DOMAIN orders :
        (orders[i].ifood_id /= NoId /\ orders[i].ifood_id = orders[j].ifood_id) =>
            i = j

(***************************************************************************)
(* Properties of the operator command endpoints                            *)
(***************************************************************************)
\* C25: when the remote platform answers a confirm or cancel command with a
\* pending result (202), the endpoint does not write the order's status: the
\* status stays as it was until the matching inbound event is applied.
C25_PendingLeavesStatus ==
    [][(opPc = "remote" /\ opPc' = "idle" /\ opResult' = "pending") =>
           orders'[opId].status = orders[opId].status]_vars

\* C27: when the remote call of a command endpoint fails, the endpoint
\* answers a structured failure (success = false), does not raise, and leaves
\* the Order store as it was.
C27_RemoteFailureStructured ==
    [][(opPc = "remote" /\ opPc' = "idle"
         /\ opResult' \notin {"success", "pending"}) =>
           /\ opResult' = "failure"
           /\ orders' = orders]_vars

\* C27 witness: a command on a stored order has ended in a failure answer and
\* the order is as it was created.
C27_Witness ==
    /\ opPc = "idle" /\ opResult = "failure"
    /\ Len(orders) = 1 /\ orders[1] = NewOrder("O1")

\* C28: a command called with a local id that matches no Order is answered
\* 404 with no request to the remote platform and no change of stored state:
\* a remote call is only ever in flight for a stored order, and the step that
\* answers 404 leaves the endpoint idle and the stores as they were.
C28_UnknownIdNotFound ==
    [][/\ opPc' = "remote" => opId' \in DOMAIN orders'
       /\ (opResult' = "404" /\ opResult /= "404") =>
             /\ opPc = "idle" /\ opPc' = "idle"
             /\ opCmd' = opCmd
             /\ UNCHANGED <<orders, events, polling_status>>]_vars

\* C28 witness: with one order stored, a command naming another local id was
\* answered 404.
C28_Witness ==
    /\ opPc = "idle" /\ opResult = "404"
    /\ Len(orders) = 1

(***************************************************************************)
(* Properties of the Remote Command Gateway                                *)
(***************************************************************************)
\* C24: confirm_order and request_cancellation return a pending result
\* exactly when the final answer of the remote platform is 202, and their
\* plain result (confirmed / cancelled) for any other successful answer.
C24_PendingOnlyOn202 ==
    [][\A c \in Callers :
          (/\ calls[c].pc = "op_wait" /\ calls'[c].pc = "idle"
           /\ lastOp' \in {"confirm_order", "request_cancellation"}) =>
              /\ calls'[c].result = "pending" <=> calls'[c].status = 202
              /\ calls'[c].status \in {200, 204} => calls'[c].result = "success"]_vars

\* C24 witness: a request_cancellation call answered 202 has returned a
\* pending result.
C24_Witness ==
    \E c \in Callers :
        /\ calls[c].pc = "idle" /\ calls[c].status = 202
        /\ calls[c].result = "pending"
        /\ lastOp = "request_cancellation"

\* the operations of the Remote Command Gateway on an order
GatewayCommands ==
    {"confirm_order", "start_preparation", "ready_to_pickup", "dispatch_order",
     "request_cancellation", "get_order_tracking", "start_separation",
     "end_separation", "picking_item"}

\* C26: every Remote Command Gateway operation whose final answer is 404
\* returns a typed not-found result and does not raise.
C26_NotFoundIsTyped ==
    [][\A c \in Callers :
          (/\ calls[c].pc = "op_wait" /\ calls'[c].pc = "idle"
           /\ calls'[c].status = 404
           /\ lastOp' \in GatewayCommands) =>
              calls'[c].result = "notfound"]_vars

\* C30: with the client id or the client secret missing, a call of
\* authenticate() ends at once in a configuration error: no request is sent
\* to the token endpoint or to an operation, the credential state is as it
\* was, and nothing is tried again.
C30_MissingCredentialsFail ==
    [][\A c \in Callers :
          (/\ calls[c].pc = "idle" /\ calls'[c] /= calls[c]
           /\ (client_id = NoId \/ client_secret = NoId)) =>
              /\ calls'[c].pc = "idle"
              /\ calls'[c].result = "config_error"
              /\ calls'[c].tokReqs = 0 /\ calls'[c].opReqs = 0
              /\ \A d \in Callers : calls'[d].pc \notin {"auth_wait", "op_wait"}
              /\ UNCHANGED <<access_token, token_expires_at, token_expires_in,
                             client_id, client_secret>>]_vars

\* C30 witness: with the client secret missing and the client id set, a call
\* has ended in a configuration error.
C30_Witness ==
    /\ client_id /= NoId /\ client_secret = NoId
    /\ \E c \in Callers :
          calls[c].pc = "idle" /\ calls[c].result = "config_error"

(***************************************************************************)
(* Properties of the poller's tasks                                        *)
(***************************************************************************)
\* the loop tasks that have not ended and that no cancellation is pending on
LiveLoops == {t \in LoopTasks : cyc[t].pc \notin {"none", "done"} /\ ~cyc[t].cancel}

\* C36: at most one polling loop task is alive at any time.
C36_SingleLoopTask ==
    Cardinality(LiveLoops) <= 1

(***************************************************************************)
(* Properties of redelivery and of the Event Records                       *)
(***************************************************************************)
\* C31: an event whose processing stopped after its Event Record was stored
\* and before the record was marked processed stays re-deliverable: a later
\* delivery of the same event id, no other call for the id being in
\* progress, is not dropped as a duplicate but goes on to be applied.
C31_StoppedEventRedeliverable ==
    [][\A t \in LoopTasks :
          (/\ pc[t] = "dedupe" /\ pc'[t] /= "dedupe" /\ ~cyc[t].cancel
           /\ CopiesIn(EventDoc(cur[t], FALSE), events) > 0
           /\ \A v \in Runners \ {t} : cur[v] /= cur[t]) =>
              pc'[t] /= "idle"]_vars

\* C32: an Event Record is never deleted, its processed flag never goes back
\* from true to false, and the flag of a PLACED event is set only when the
\* order was saved from the fetched details.
C32_ProcessedAfterApplied ==
    [][\A e \in EventIds :
          /\ CountEvent(e)' >= CountEvent(e)
          /\ CopiesIn(EventDoc(e, TRUE), events') >= CopiesIn(EventDoc(e, TRUE), events)
          /\ (/\ FeedEvent[e].code = "PLACED"
              /\ CopiesIn(EventDoc(e, TRUE), events') > CopiesIn(EventDoc(e, TRUE), events)) =>
                 e \in saved']_vars

\* C35: when the polling loop and a forced poll apply the same event id
\* concurrently, there is one Event Record for the id, the Order of a PLACED
\* event is created at most once, and neither call of process_ifood_event
\* raises: the loser is absorbed as a duplicate.
C35_ConcurrentDuplicateAbsorbed ==
    /\ \A e \in EventIds : CountEvent(e) <= 1
    /\ \A o \in RemoteOrders : Cardinality(MatchIfood(o)) <= 1
    /\ \A w \in Runners : outcome[w] /= "raised"

\* C37: the confirm endpoint writes CONFIRMED only over PLACED: whatever
\* event was processed during its remote call, the status it replaces is
\* PLACED.
C37_ConfirmOnlyFromPlaced ==
    [][(/\ opPc = "remote" /\ opCmd = "confirm" /\ opPc' = "idle"
        /\ orders'[opId].status /= orders[opId].status) =>
           orders[opId].status = "PLACED"]_vars

\* C38: every stored Order has a remote id, the order id of a PLACED event
\* whose order was saved: a PLACED event whose order-detail fetch is answered
\* not-found, or fails, creates no Order.
C38_NoOrderWithoutDetails ==
    \A i \in DOMAIN orders :
        /\ orders[i].ifood_id /= NoId
        /\ \E e \in saved : FeedEvent[e].orderId = orders[i].ifood_id

\* C33: within one poll cycle the events are handed to process_ifood_event
\* one at a time, in the order of the poll response; the acknowledgment is
\* sent only after every event of the batch was handed over and its call
\* returned, it names the ids of that batch, each of which has its Event
\* Record, and a cycle with an empty batch sends none.
C33_InOrderThenAck ==
    [][/\ \A w \in Runners :
             /\ (pc[w] = "idle" /\ pc'[w] /= "idle") =>
                   /\ cyc[w].pc = "process"
                   /\ cyc'[w].handed = cyc[w].handed + 1
                   /\ cur'[w] = cyc[w].batch[cyc'[w].handed]
             /\ (cyc[w].pc /= "ack" /\ cyc'[w].pc = "ack") =>
                   /\ Len(cyc'[w].batch) > 0
                   /\ cyc'[w].handed = Len(cyc'[w].batch)
                   /\ pc[w] = "idle"
       /\ acked' /= acked =>
             \E w \in Runners :
                 /\ cyc[w].pc = "ack"
                 /\ acked' = acked \cup BatchIds(cyc[w].batch)
                 /\ \A e \in BatchIds(cyc[w].batch) : CountEvent(e) > 0]_vars

\* C33 witness: the forced poll has handed over both events of its batch, in
\* order, and has sent the acknowledgment.
C33_Witness ==
    /\ cyc["force_poll"].pc = "ack"
    /\ cyc["force_poll"].batch = <<"E1", "E3">>
    /\ cyc["force_poll"].handed = 2
    /\ pc["force_poll"] = "idle"
    /\ acked = {}

\* C34: the status update that ends a cycle of the loop, on the success path
\* and on the failure path, is followed by one sleep of 30 seconds whatever
\* the error count and the event count, and the poll request of a cycle is
\* sent only at the start of the task or after that sleep.
C34_FixedSleepAfterCycle ==
    [][\A t \in LoopTasks :
          /\ (cyc[t].pc \in {"status_ok", "status_err"} /\ cyc'[t].pc /= cyc[t].pc
               /\ ~cyc[t].cancel) =>
                 cyc'[t].pc = "sleep" /\ cyc'[t].wait = 30
          /\ (cyc[t].pc /= "poll" /\ cyc'[t].pc = "poll") =>
                 \/ cyc[t].pc = "begin"
                 \/ cyc[t].pc = "sleep" /\ cyc[t].wait = 30]_vars

\* C34 witness: the loop sleeps after its second failed cycle in a row.
C34_Witness ==
    \E t \in LoopTasks :
        /\ cyc[t].pc = "sleep" /\ cyc[t].wait = 30
        /\ cyc[t].failed /= "none"
        /\ polling_status.errors_count = 2

\* stop_polling has returned and start_polling has not been called since
Stopped == ~polling_active /\ stopPc = "idle"

\* C39: once stop_polling has returned, and until the next start, no loop task
\* sends a poll request or an acknowledgment or applies an event, and the
\* polling status keeps is_active false and connection_status disconnected.
C39_StoppedLoopSilent ==
    [][(Stopped /\ Stopped') =>
          /\ acked' = acked
          /\ orders' = orders
          /\ events' = events
          /\ polling_status' = polling_status
          /\ \A t \in LoopTasks :
                cyc'[t].pc \in {"poll", "ack"} => cyc'[t].pc = cyc[t].pc]_vars

====
